---- MODULE Spec2Model ----
(***************************************************************************)
(* Model of kingdom5500/dijkstra-and-graphs: the Graph store of            *)
(* src/src/graph.rs (a HashSet of vertices and a Vec of undirected,        *)
(* weighted edges) and Graph::dijkstra_paths, the shortest-path            *)
(* computation that has neither a zero nor an infinity for the weight      *)
(* type.  Weights are naturals, as the u32 weights of src/src/main.rs;     *)
(* the sums of the modelled runs stay far below 2^32.                      *)
(***************************************************************************)
EXTENDS Integers, Sequences, FiniteSets, TLC

\* Bounds of the model.
MaxEdges == 3
MaxWeight == 1

\* The vertex values a caller passes to add_vertex, connect_vertices and
\* dijkstra_paths (the first names of main.rs).
Vertex == {"A", "B", "C"}
Weight == 0..MaxWeight

VARIABLES
    vertices,            \* Graph.vertices : HashSet<V>
    edges,               \* Graph.edges : Vec<Edge>, in insertion order
    last_connect,        \* the latest connect_vertices call and what it returned
    pc,                  \* where dijkstra_paths is: idle, seed, loop, relax, done, panic
    source,              \* dijkstra_paths' argument
    pending,             \* what self.vertices.iter() has still to yield (line 141)
    unvisited_vertices,  \* the local HashSet<&V>
    distances,           \* the local HashMap<&V, E>
    nearest_vertex,      \* the vertex the current loop iteration removed
    settled,             \* history: the vertices in the order line 166 removed them
    prev_paths           \* the mapping the previous call returned for the same
                         \* source on the graph as it is now, or NoPaths

vars == <<vertices, edges, last_connect, pc, source, pending, unvisited_vertices,
          distances, nearest_vertex, settled, prev_paths>>

store == <<vertices, edges>>
run == <<source, pending, unvisited_vertices, distances, nearest_vertex, settled>>

----------------------------------------------------------------------------
\* Values

None == <<>>
Some(x) == <<x>>

NoVertex == "-"
NoCall == [result |-> "None"]
NoPaths == [source |-> NoVertex]

\* HashMap::new(), insert and remove
EmptyMap == [x \in {} |-> 0]
Insert(map, key, value) ==
    [x \in DOMAIN map \cup {key} |-> IF x = key THEN value ELSE map[x]]
Remove(map, key) ==
    [x \in DOMAIN map \ {key} |-> map[x]]

\* Edge::new
Edge(v1, v2, value) == [v1 |-> v1, v2 |-> v2, value |-> value]

----------------------------------------------------------------------------
\* The store's queries

\* Graph::contains
contains(value) == value \in vertices

\* neighbors, had it matched the vertex against the edge's first endpoint only.
neighbor_of_v1_only(edge, vertex) ==
    IF vertex = edge.v1 THEN Some(edge.v2) ELSE None

\* One iteration of the for loop of Graph::neighbors: what the edge adds.
neighbor_of(edge, vertex) ==
    IF vertex = edge.v1 THEN Some(edge.v2)
    ELSE IF vertex = edge.v2 THEN Some(edge.v1)
    ELSE None

\* Graph::neighbors over an edge sequence: (other vertex, weight) pairs.
RECURSIVE neighbors_in(_, _)
neighbors_in(es, vertex) ==
    IF es = <<>> THEN <<>>
    ELSE LET edge == es[Len(es)]
             rest == neighbors_in(SubSeq(es, 1, Len(es) - 1), vertex)
             neighbor == neighbor_of(edge, vertex)
         IN  IF neighbor # None
             THEN Append(rest, <<neighbor[1], edge.value>>)
             ELSE rest

neighbors(vertex) == neighbors_in(edges, vertex)

\* value_between, had it tested the forward link only.
links_forward_only(edge, v1, v2) ==
    edge.v1 = v1 /\ edge.v2 = v2

\* The test of Graph::value_between on one edge.
links(edge, v1, v2) ==
    LET forward_link == edge.v1 = v1 /\ edge.v2 = v2
        backward_link == edge.v1 = v2 /\ edge.v2 = v1
    IN  forward_link \/ backward_link

\* Graph::value_between over an edge sequence: the first edge that links.
RECURSIVE value_between_in(_, _, _)
value_between_in(es, v1, v2) ==
    IF es = <<>> THEN None
    ELSE IF links(Head(es), v1, v2) THEN Some(Head(es).value)
    ELSE value_between_in(Tail(es), v1, v2)

value_between(v1, v2) == value_between_in(edges, v1, v2)

----------------------------------------------------------------------------
\* Graph::empty, and dijkstra_paths not running

NoRun ==
    /\ source = NoVertex
    /\ pending = {}
    /\ unvisited_vertices = {}
    /\ distances = EmptyMap
    /\ nearest_vertex = NoVertex
    /\ settled = <<>>

Init ==
    /\ vertices = {}
    /\ edges = <<>>
    /\ last_connect = NoCall
    /\ pc = "idle"
    /\ NoRun
    /\ prev_paths = NoPaths

\* Graph::add_vertex
AddVertex(value) ==
    /\ pc = "idle"
    /\ vertices' = vertices \cup {value}
    /\ last_connect' = NoCall
    /\ prev_paths' = IF value \in vertices THEN prev_paths ELSE NoPaths
    /\ UNCHANGED <<edges, pc, run>>

\* connect_vertices, had it asked for one of the two vertices only.
connect_outcome_either(v1, v2, edge_value) ==
    IF ~(contains(v1) \/ contains(v2))
    THEN [edges |-> edges, result |-> "Err"]
    ELSE [edges |-> Append(edges, Edge(v1, v2, edge_value)), result |-> "Ok"]

\* The outcome of Graph::connect_vertices: the edges after it and its result.
connect_outcome(v1, v2, edge_value) ==
    IF ~(contains(v1) /\ contains(v2))
    THEN [edges |-> edges, result |-> "Err"]
    ELSE [edges |-> Append(edges, Edge(v1, v2, edge_value)), result |-> "Ok"]

\* Graph::connect_vertices
ConnectVertices(v1, v2, edge_value) ==
    /\ pc = "idle"
    /\ (contains(v1) /\ contains(v2)) => Len(edges) < MaxEdges
    /\ LET out == connect_outcome(v1, v2, edge_value)
       IN  /\ edges' = out.edges
           /\ last_connect' = [result |-> out.result, v1 |-> v1, v2 |-> v2,
                               value |-> edge_value]
           /\ prev_paths' = IF out.result = "Ok" THEN NoPaths ELSE prev_paths
    /\ UNCHANGED <<vertices, pc, run>>

\* The graph! macro as main calls it: Graph::empty(), add_vertex for each start
\* vertex, then connect_vertices(start, end, value).unwrap() for each entry.
\* All vertices are there before the first edge, so no call fails.
main_vertices == {"A", "B", "C", "D", "E", "F"}
main_edges ==
    <<Edge("A", "B", 6), Edge("A", "C", 5),
      Edge("B", "C", 3), Edge("B", "D", 4),
      Edge("C", "D", 3), Edge("C", "E", 7), Edge("C", "F", 10),
      Edge("D", "E", 5),
      Edge("E", "F", 4)>>

\* main builds its graph.  last_connect records single calls, not the macro's.
MainGraph ==
    /\ pc = "idle"
    /\ vertices = {}
    /\ edges = <<>>
    /\ vertices' = main_vertices
    /\ edges' = main_edges
    /\ last_connect' = NoCall
    /\ prev_paths' = NoPaths
    /\ UNCHANGED <<pc, run>>

----------------------------------------------------------------------------
\* Graph::dijkstra_paths

\* The call, up to the for loop over self.vertices (lines 137-141).
DijkstraStart(src) ==
    /\ pc = "idle"
    /\ source' = src
    /\ distances' = EmptyMap
    /\ unvisited_vertices' = {}
    /\ pending' = vertices
    /\ pc' = IF vertices = {} THEN "loop" ELSE "seed"
    /\ last_connect' = NoCall
    /\ prev_paths' = IF prev_paths.source = src THEN prev_paths ELSE NoPaths
    /\ UNCHANGED <<store, nearest_vertex, settled>>

\* What one iteration of the first loop leaves in distances (lines 152-154).
seed(dist, vertex) ==
    LET source_dist == value_between(source, vertex)
    IN  IF source_dist # None THEN Insert(dist, vertex, source_dist[1]) ELSE dist

\* One iteration of the first loop; the HashSet yields its elements in any order.
SeedStep(vertex) ==
    /\ pc = "seed"
    /\ vertex \in pending
    /\ pending' = pending \ {vertex}
    /\ IF vertex = source
       THEN UNCHANGED <<unvisited_vertices, distances>>
       ELSE /\ unvisited_vertices' = unvisited_vertices \cup {vertex}
            /\ distances' = seed(distances, vertex)
    /\ pc' = IF pending' = {} THEN "loop" ELSE "seed"
    /\ UNCHANGED <<store, last_connect, source, nearest_vertex, settled, prev_paths>>

\* The unvisited vertices that pass the filter of line 162.
candidates == {v \in unvisited_vertices : v \in DOMAIN distances}

\* The selection, had it taken the first candidate the filter lets through.
is_nearest_any(v) == v \in {u \in unvisited_vertices : u \in DOMAIN distances}

\* min_by_key of line 163: v is a minimum of the candidates.  Which of several
\* minima the iterator returns depends on the HashSet's order: any of them.
is_nearest(v) ==
    /\ v \in candidates
    /\ \A u \in candidates : distances[v] <= distances[u]

\* Lines 157-166: the loop goes on, a nearest vertex is found and removed.
Select(v) ==
    /\ pc = "loop"
    /\ unvisited_vertices # {}
    /\ is_nearest(v)
    /\ unvisited_vertices' = unvisited_vertices \ {v}
    /\ nearest_vertex' = v
    /\ settled' = Append(settled, v)
    /\ pc' = "relax"
    /\ UNCHANGED <<store, last_connect, source, pending, distances, prev_paths>>

\* Line 164: unwrap() of None, when the filter lets no unvisited vertex through.
Panic ==
    /\ pc = "loop"
    /\ unvisited_vertices # {}
    /\ candidates = {}
    /\ pc' = "panic"
    /\ UNCHANGED <<store, last_connect, run, prev_paths>>

\* The relaxation, had it never lowered a distance that is already there.
relax_never_lowers(dist, vertex, edge_len, nearest_dist) ==
    IF vertex \notin DOMAIN dist
    THEN Insert(dist, vertex, nearest_dist + edge_len)
    ELSE dist

\* The relaxation, had its comparison been the other way round.
relax_flipped(dist, vertex, edge_len, nearest_dist) ==
    IF vertex \notin DOMAIN dist \/ nearest_dist + edge_len > dist[vertex]
    THEN Insert(dist, vertex, nearest_dist + edge_len)
    ELSE dist

\* Lines 177-182: one neighbor of the nearest vertex.
relax(dist, vertex, edge_len, nearest_dist) ==
    LET alt_dist == nearest_dist + edge_len
    IN  IF vertex \notin DOMAIN dist \/ alt_dist < dist[vertex]
        THEN Insert(dist, vertex, alt_dist)
        ELSE dist

\* The for loop of lines 173-183 over the neighbors, in their order.
RECURSIVE relax_all(_, _, _)
relax_all(dist, nbrs, nearest_dist) ==
    IF nbrs = <<>> THEN dist
    ELSE relax_all(relax(dist, Head(nbrs)[1], Head(nbrs)[2], nearest_dist),
                   Tail(nbrs), nearest_dist)

\* Lines 170-183: the rest of the loop's body.
Relax ==
    /\ pc = "relax"
    /\ LET nearest_dist == distances[nearest_vertex]
       IN  distances' = relax_all(distances, neighbors(nearest_vertex), nearest_dist)
    /\ pc' = "loop"
    /\ UNCHANGED <<store, last_connect, source, pending, unvisited_vertices,
                   nearest_vertex, settled, prev_paths>>

\* The return, had the source's entry been left in.
returned_with_source(dist, src) == dist

\* Lines 190-194: the mapping that is returned.
returned(dist, src) ==
    IF src \in DOMAIN dist THEN Remove(dist, src) ELSE dist

\* The loop ends (line 157) and the mapping is returned.
Finish ==
    /\ pc = "loop"
    /\ unvisited_vertices = {}
    /\ distances' = returned(distances, source)
    /\ pc' = "done"
    /\ UNCHANGED <<store, last_connect, source, pending, unvisited_vertices,
                   nearest_vertex, settled, prev_paths>>

\* The caller has the mapping (main.rs, line 18) and lets it go; the graph can
\* be borrowed again.
Return ==
    /\ pc = "done"
    /\ prev_paths' = [source |-> source, paths |-> distances, settled |-> settled]
    /\ pc' = "idle"
    /\ source' = NoVertex
    /\ pending' = {}
    /\ unvisited_vertices' = {}
    /\ distances' = EmptyMap
    /\ nearest_vertex' = NoVertex
    /\ settled' = <<>>
    /\ UNCHANGED <<store, last_connect>>

Next ==
    \/ \E value \in Vertex : AddVertex(value)
    \/ \E v1, v2 \in Vertex, edge_value \in Weight : ConnectVertices(v1, v2, edge_value)
    \/ MainGraph
    \/ \E src \in Vertex \cup vertices : DijkstraStart(src)
    \/ \E vertex \in vertices : SeedStep(vertex)
    \/ \E v \in vertices : Select(v)
    \/ Panic
    \/ Relax
    \/ Finish
    \/ Return

Spec == Init /\ [][Next]_vars

----------------------------------------------------------------------------
\* An independent reference for the claims: the graph as a set of weighted,
\* unordered pairs, reachability as a closure, distance as the least weight of
\* a simple path.

\* The positions of the stored edges that join a and b, in either direction.
Joining(a, b) == {i \in 1..Len(edges) : {edges[i].v1, edges[i].v2} = {a, b}}

\* The positions of the stored edges that have v as an endpoint.
Touching(v) == {i \in 1..Len(edges) : edges[i].v1 = v \/ edges[i].v2 = v}

Least(S) == CHOOSE x \in S : \A y \in S : x <= y

\* The k-th smallest element of a set of numbers.
Kth(S, k) == CHOOSE x \in S : Cardinality({y \in S : y <= x}) = k

RECURSIVE Reach(_)
Reach(S) ==
    LET T == S \cup {v \in vertices : \E u \in S : Joining(u, v) # {}}
    IN  IF T = S THEN S ELSE Reach(T)

\* The vertices joined to the source by a path, the source included.
Reachable == Reach({source})

\* Every vertex of the graph can be reached from the source.
AllReachable == vertices \subseteq Reachable

\* At most one edge per unordered pair of vertices.
OneEdgePerPair == \A a, b \in vertices : Cardinality(Joining(a, b)) <= 1

\* The simple paths from a to b, as sequences of vertices.
SimplePaths(a, b) ==
    {p \in UNION {[1..n -> vertices] : n \in 2..Cardinality(vertices)} :
        /\ p[1] = a
        /\ p[Len(p)] = b
        /\ \A i, j \in 1..Len(p) : p[i] = p[j] => i = j
        /\ \A i \in 1..(Len(p) - 1) : Joining(p[i], p[i + 1]) # {}}

RECURSIVE PathWeight(_)
PathWeight(p) ==
    IF Len(p) < 2 THEN 0
    ELSE Least({edges[i].value : i \in Joining(p[1], p[2])}) + PathWeight(Tail(p))

\* The least total weight of a path from a to b (b reachable from a, b # a).
MinDistance(a, b) == Least({PathWeight(p) : p \in SimplePaths(a, b)})

\* dijkstra_paths has been called and has not yet handed its mapping over.
Running == pc \in {"seed", "loop", "relax", "done", "panic"}

----------------------------------------------------------------------------
\* C1: on a graph with at most one edge per pair of vertices in which every
\* vertex can be reached from the source, dijkstra_paths does not fail, and the
\* mapping it returns has exactly the vertices other than the source as keys,
\* each with the least total weight of a path from the source.
C1_ShortestDistances ==
    (Running /\ OneEdgePerPair /\ AllReachable) =>
        /\ pc # "panic"
        /\ pc = "done" =>
            /\ DOMAIN distances = vertices \ {source}
            /\ \A v \in vertices \ {source} : distances[v] = MinDistance(source, v)

\* main's call on main's graph has returned: D, E and F are reached through C,
\* B by its own edge although it also has a path through C.
C1_Witness ==
    /\ pc = "done"
    /\ edges = main_edges
    /\ source = "A"
    /\ OneEdgePerPair
    /\ AllReachable
    /\ distances = ("B" :> 6 @@ "C" :> 5 @@ "D" :> 8 @@ "E" :> 12 @@ "F" :> 15)

\* C2 as claimed: when some vertices other than the source can be reached and
\* others cannot, dijkstra_paths does not fail, and returns the reachable
\* vertices other than the source and no other.
C2_UnreachableLeftOut ==
    (/\ Running
     /\ source \in vertices
     /\ (vertices \cap Reachable) \ {source} # {}
     /\ vertices \ Reachable # {}) =>
        /\ pc # "panic"
        /\ pc = "done" => DOMAIN distances = (vertices \cap Reachable) \ {source}

\* C3 as claimed: when the source touches no edge, dijkstra_paths does not fail
\* and returns an empty mapping, whatever else the graph holds.
C3_IsolatedSourceEmpty ==
    (Running /\ Touching(source) = {}) =>
        /\ pc # "panic"
        /\ pc = "done" => distances = EmptyMap

\* C4: connect_vertices returns an error exactly when one of its vertices is
\* not in the vertex set; then nothing changes; otherwise exactly its edge is
\* appended to the edge sequence.
C4_ConnectResult ==
    [][last_connect' # NoCall =>
        LET c == last_connect'
        IN  /\ c.result \in {"Ok", "Err"}
            /\ c.result = "Err" <=> (c.v1 \notin vertices \/ c.v2 \notin vertices)
            /\ vertices' = vertices
            /\ c.result = "Err" => edges' = edges
            /\ c.result = "Ok" =>
                /\ Len(edges') = Len(edges) + 1
                /\ SubSeq(edges', 1, Len(edges)) = edges
                /\ edges'[Len(edges')] = [v1 |-> c.v1, v2 |-> c.v2, value |-> c.value]
    ]_vars

\* connect_vertices has succeeded on a pair that an earlier edge joins already.
C4_Witness ==
    /\ last_connect.result = "Ok"
    /\ Cardinality(Joining(last_connect.v1, last_connect.v2)) >= 2

\* C5: the mapping dijkstra_paths returns has no key equal to the source.
C5_NoSourceKey == pc = "done" => source \notin DOMAIN distances

\* A mapping has been returned after a vertex with an edge to the source was
\* settled, so that its relaxation gave the source a provisional entry.
C5_Witness ==
    /\ pc = "done"
    /\ \E i \in 1..Len(settled) : Joining(settled[i], source) # {}
    /\ source \notin DOMAIN distances

\* C6 as claimed: after connect_vertices(A, B, w) succeeds, value_between(A, B)
\* and value_between(B, A) both return w.
C6_BothReturnW ==
    last_connect.result = "Ok" =>
        /\ value_between(last_connect.v1, last_connect.v2) = Some(last_connect.value)
        /\ value_between(last_connect.v2, last_connect.v1) = Some(last_connect.value)

\* C6 amended: after connect_vertices(A, B, w) succeeds, value_between(A, B) and
\* value_between(B, A) both return the weight of the first inserted edge that
\* joins A and B, which is w when no edge joined them before the call.
C6_BothReturnFirst ==
    last_connect.result = "Ok" =>
        LET a == last_connect.v1
            b == last_connect.v2
            first == Least(Joining(a, b))
        IN  /\ value_between(a, b) = Some(edges[first].value)
            /\ value_between(b, a) = Some(edges[first].value)
            /\ Joining(a, b) = {Len(edges)} => value_between(a, b) = Some(last_connect.value)

\* connect_vertices has succeeded between two different vertices that an earlier
\* edge of another weight joins, in the other direction.
C6_Witness ==
    /\ last_connect.result = "Ok"
    /\ last_connect.v1 # last_connect.v2
    /\ \E i \in Joining(last_connect.v1, last_connect.v2) :
        /\ i < Len(edges)
        /\ edges[i].v1 = last_connect.v2
        /\ edges[i].value # last_connect.value

\* C7: for every v, in the vertex set or not, neighbors(v) has one entry per
\* stored edge touching v, in insertion order: the other endpoint of the edge
\* and its weight.  Parallel edges each have their entry, a loop on v has one.
C7_Neighbors ==
    \A v \in Vertex \cup vertices :
        LET ns == neighbors(v)
        IN  /\ Len(ns) = Cardinality(Touching(v))
            /\ \A k \in 1..Len(ns) :
                LET e == edges[Kth(Touching(v), k)]
                IN  ns[k] = <<IF e.v1 = v THEN e.v2 ELSE e.v1, e.value>>

\* A vertex with a loop, between two parallel edges, one in each direction.
C7_Witness ==
    \E v \in Vertex :
        /\ Len(edges) = 3
        /\ edges[2].v1 = v /\ edges[2].v2 = v
        /\ edges[1].v1 = v /\ edges[1].v2 # v
        /\ edges[3].v2 = v /\ edges[3].v1 = edges[1].v2

\* C8: a call of dijkstra_paths returns the mapping that the call before it
\* returned for the same source on the same graph, whatever the order in which
\* the two runs found the vertices.
C8_SameMapping ==
    (pc = "done" /\ prev_paths # NoPaths) => distances = prev_paths.paths

\* Two calls in a row have settled the vertices in different orders.
C8_Witness ==
    /\ pc = "done"
    /\ prev_paths # NoPaths
    /\ Len(settled) >= 2
    /\ settled # prev_paths.settled

\* C9 as claimed: with parallel edges too, when every vertex can be reached,
\* dijkstra_paths maps each vertex to the least total weight of a path.
C9_ParallelEdges ==
    (pc = "done" /\ AllReachable) =>
        \A v \in vertices \ {source} :
            v \in DOMAIN distances /\ distances[v] = MinDistance(source, v)

\* The vertices that have been removed from the unvisited set.
Settled == {settled[i] : i \in 1..Len(settled)}

\* The settled vertices' distances do not decrease in the order of settling.
SettledInOrder ==
    \A i, j \in 1..Len(settled) :
        (i < j /\ pc # "seed") => distances[settled[i]] <= distances[settled[j]]

\* C10: during a run of dijkstra_paths no step changes the distance of a vertex
\* that has been removed from the unvisited set, the distances of the removed
\* vertices do not decrease in the order of their removal, and an iteration of
\* the loop removes exactly one vertex: the selection removes one vertex, and
\* the relaxation none.
C10_SettledStay ==
    [][(pc \in {"loop", "relax"} /\ pc' # "idle") =>
        /\ \A v \in Settled : distances'[v] = distances[v]
        /\ SettledInOrder'
        /\ pc' = "relax" =>
            /\ unvisited_vertices' \subseteq unvisited_vertices
            /\ Cardinality(unvisited_vertices \ unvisited_vertices') = 1
        /\ pc = "relax" => unvisited_vertices' = unvisited_vertices
    ]_vars

\* The relaxation of the second settled vertex has gone over the first, which
\* was settled already.
C10_Witness ==
    /\ pc = "loop"
    /\ Len(settled) = 2
    /\ Joining(settled[1], settled[2]) # {}
    /\ distances[settled[1]] < distances[settled[2]]

====
